---- MODULE Spec2Model ----
(***************************************************************************)
(* Lending environments of the ML-fairness-gym port                        *)
(* (src/lending/environments/lending.py): the bank's cash, the population  *)
(* model's cluster weights, the current applicant, and the three state     *)
(* updaters the environment runs on every step.                            *)
(*                                                                         *)
(* Numbers.  Cash is counted in whole units; probabilities are counted in  *)
(* tenths (WeightTotal tenths = 1.0), so the scenario weights              *)
(* [0.5, 0.3, 0.2] are <<5, 3, 2>> and cluster_shift_increment 0.4 is 4.   *)
(* Arithmetic is exact: the shifts of the code are sums and differences of *)
(* such multiples.                                                         *)
(*                                                                         *)
(* Vectors are functions on 0 .. n-1, as the code indexes them.            *)
(***************************************************************************)
EXTENDS Integers, Sequences, FiniteSets, TLC

VARIABLES
    rng,                 \* state.rng: the state of the random source
    weights,             \* state.params.applicant_distribution.components[g].weights
    bank_cash,           \* state.bank_cash
    applicant_features,  \* state.applicant_features
    group,               \* state.group (one-hot)
    group_id,            \* state.group_id
    will_default,        \* state.will_default
    history,             \* env.history: sequence of (state snapshot, action)
    status,              \* "uninitialized", "ready" or "terminated"
    raised,              \* the error the last call raised, or "none"
    episode,             \* the number of reset() calls made so far
    initial_params,      \* env.initial_params: the template the state is copied from
    parameter_updater,   \* the class attribute _parameter_updater of the variant
    twin                 \* a second, independent run given the same calls

vars == <<rng, weights, bank_cash, applicant_features, group, group_id,
          will_default, history, status, raised, episode, initial_params,
          parameter_updater, twin>>

----------------------------------------------------------------------------
(* Bounds of the model. *)

\* the number of completed steps a run makes
MaxSteps == 3
\* the number of reset() calls a run makes
MaxEpisodes == 2

----------------------------------------------------------------------------
(* LoanDecision *)

REJECT == 0
ACCEPT == 1

\* what a caller may pass as an action: the two decisions and one value
\* outside the action space
Actions == {REJECT, ACCEPT, 2}

----------------------------------------------------------------------------
(* The parameter bundle (lending_params) and the population model. *)

\* params.loan_amount
LoanAmount == 10
\* params.interest_rate = InterestNum / InterestDen = 0.1
InterestNum == 1
InterestDen == 10
\* params.max_cash
MaxCash == 102
\* params.min_observation, params.max_observation
MinObservation == 0
MaxObservation == 1
\* params.cluster_shift_increment, in tenths
ClusterShiftIncrement == 4
\* 1.0, in tenths
WeightTotal == 10
\* the tolerance 1e-6 of the normalisation assertion is 1 / ToleranceDen
ToleranceDen == 1000000

NumGroups == 2
NumClusters == 3
Groups == 0 .. NumGroups - 1
Clusters == 0 .. NumClusters - 1

\* the top-level mixture over groups (fixed)
GroupWeights == [g \in Groups |-> 5]

\* the template's cluster weights of each group
TemplateWeights ==
    [g \in Groups |->
        IF g = 0 THEN [c \in Clusters |-> CASE c = 0 -> 5 [] c = 1 -> 3 [] OTHER -> 2]
                 ELSE [c \in Clusters |-> CASE c = 0 -> 2 [] c = 1 -> 4 [] OTHER -> 4]]

\* the probability, in tenths, that an applicant of cluster c defaults
DefaultProb == [c \in Clusters |-> CASE c = 0 -> 8 [] c = 1 -> 5 [] OTHER -> 2]

OneHot(i, n) == [j \in 0 .. n - 1 |-> IF j = i THEN 1 ELSE 0]

\* the feature vector a cluster's component produces: the one-hot credit
\* score in the delayed-impact template, an unclipped score elsewhere
ComponentFeatures(updater, c) ==
    IF updater = "_CreditShift"
    THEN OneHot(c, NumClusters)
    ELSE [j \in Clusters |-> IF j = c THEN 2 ELSE -1]

----------------------------------------------------------------------------
(* numpy *)

Min(a, b) == IF a <= b THEN a ELSE b
Max(a, b) == IF a >= b THEN a ELSE b
Abs(a) == IF a >= 0 THEN a ELSE -a

\* np.argmax over a vector indexed 0 .. n-1: the first index of the maximum
ArgMax(v) ==
    CHOOSE i \in DOMAIN v :
        /\ \A j \in DOMAIN v : v[j] <= v[i]
        /\ \A j \in DOMAIN v : j < i => v[j] < v[i]

\* the vector passed on as sampled
ClipNone(v, lo, hi) == v

\* np.clip, element-wise
Clip(v, lo, hi) == [j \in DOMAIN v |-> Min(Max(v[j], lo), hi)]

RECURSIVE SumTo(_, _)
\* v[0] + ... + v[k]
SumTo(v, k) == IF k < 0 THEN 0 ELSE v[k] + SumTo(v, k - 1)

\* np.sum
Sum(v) == SumTo(v, Cardinality(DOMAIN v) - 1)

\* np.random.RandomState: a generator whose state determines every later
\* draw.  A draw advances the state and returns it as a uniform value
\* u / RngModulus in [0, 1).
RngModulus == 32
RngMultiplier == 5
RngIncrement == 11
RngStates == 0 .. RngModulus - 1
NextRng(s) == (RngMultiplier * s + RngIncrement) % RngModulus

\* np.random.RandomState() with no seed: seeded from the operating system,
\* any of these
OsEntropy == {7, 50}

\* rng.choice(components, p = p) for the uniform value u: the first index
\* whose cumulative probability exceeds u
Choice(u, p) ==
    CHOOSE i \in DOMAIN p :
        /\ SumTo(p, i) * RngModulus > u * Sum(p)
        /\ \A j \in DOMAIN p : j < i => ~(SumTo(p, j) * RngModulus > u * Sum(p))

\* Bernoulli(p / 10) for the uniform value u
Bernoulli(u, p) == u * WeightTotal < p * RngModulus

----------------------------------------------------------------------------
(* The population model: applicant_distribution.sample(rng). *)

\* components[g].sample(rng): one draw for the cluster, by the group's
\* current cluster weights, and one for the outcome
ComponentSample(r, w, g, updater) ==
    LET r1 == NextRng(r)
        c  == Choice(r1, w[g])
        r2 == NextRng(r1)
    IN  [features     |-> ComponentFeatures(updater, c),
         group        |-> OneHot(g, NumGroups),
         will_default |-> Bernoulli(r2, DefaultProb[c]),
         rng          |-> r2]

\* applicant_distribution.sample(rng): one draw for the group, then the
\* group's component
DistributionSample(r, w, updater) ==
    LET r1 == NextRng(r)
        g  == Choice(r1, GroupWeights)
    IN  ComponentSample(r1, w, g, updater)

----------------------------------------------------------------------------
(* _CashUpdater *)

\* params.loan_amount * params.interest_rate
InterestGain == (LoanAmount * InterestNum) \div InterestDen

\* a repayment credited with the principal as well as the interest
CashUpdater_updatePrincipal(state, action) ==
    IF action = REJECT
    THEN state
    ELSE IF state.will_default
         THEN [state EXCEPT !.bank_cash = @ - LoanAmount]
         ELSE [state EXCEPT !.bank_cash = @ + LoanAmount + InterestGain]

CashUpdater_update(state, action) ==
    IF action = REJECT
    THEN state
    ELSE IF state.will_default
         THEN [state EXCEPT !.bank_cash = @ - LoanAmount]
         ELSE [state EXCEPT !.bank_cash = @ + InterestGain]

----------------------------------------------------------------------------
(* _ApplicantSampler *)

\* the index taken from the wrong vector of the applicant
SampledGroupIdFromFeatures(new_applicant) == ArgMax(new_applicant.features)

\* state.group_id = np.argmax(new_applicant.group)
SampledGroupId(new_applicant) == ArgMax(new_applicant.group)

\* the applicant drawn by the template's weights, not the state's
ApplicantSampler_updateTemplate(state, updater) ==
    LET new_applicant == DistributionSample(state.rng, TemplateWeights, updater)
    IN  [state EXCEPT
            !.rng = new_applicant.rng,
            !.applicant_features =
                Clip(new_applicant.features, MinObservation, MaxObservation),
            !.group = new_applicant.group,
            !.group_id = SampledGroupId(new_applicant),
            !.will_default = new_applicant.will_default]

\* _ApplicantSampler.update: the next applicant, by the state's own weights
ApplicantSampler_update(state, updater) ==
    LET new_applicant == DistributionSample(state.rng, state.weights, updater)
    IN  [state EXCEPT
            !.rng = new_applicant.rng,
            !.applicant_features =
                Clip(new_applicant.features, MinObservation, MaxObservation),
            !.group = new_applicant.group,
            !.group_id = SampledGroupId(new_applicant),
            !.will_default = new_applicant.will_default]

----------------------------------------------------------------------------
(* core.NoUpdate and _CreditShift *)

\* an updater's outcome: the state it leaves and the error it raised
Updated(state) == [state |-> state, raised |-> "none"]
Failed(state, error) == [state |-> state, raised |-> error]

NoUpdate_update(state, action) == Updated(state)

\* the loop "for _ in range(10)"
SanitySamples == 10

RECURSIVE SampledGroupsMatch(_, _, _)
\* the first sanity check: k samples of the group's component, drawn from
\* the local generator r, all carry the group of the state
SampledGroupsMatch(r, k, state) ==
    IF k = 0
    THEN TRUE
    ELSE LET a == ComponentSample(r, state.weights, state.group_id, "_CreditShift")
         IN  /\ a.group = state.group
             /\ SampledGroupsMatch(a.rng, k - 1, state)

\* the second sanity check: argmax of each cluster component's features is
\* the cluster's index
ArgMaxGivesIndex == \A idx \in Clusters : ArgMax(ComponentFeatures("_CreditShift", idx)) = idx

\* the direction of the move reversed
NewClusterReversed(cluster_id, defaults, n) ==
    LET new_cluster == IF defaults THEN cluster_id + 1 ELSE cluster_id - 1
    IN  Max(Min(new_cluster, n - 1), 0)

\* the clamp at the upper edge only
NewClusterNoFloor(cluster_id, defaults, n) ==
    LET new_cluster == IF defaults THEN cluster_id - 1 ELSE cluster_id + 1
    IN  Min(new_cluster, n - 1)

\* new_cluster, clamped to the cluster array
NewCluster(cluster_id, defaults, n) ==
    LET new_cluster == IF defaults THEN cluster_id - 1 ELSE cluster_id + 1
    IN  Max(Min(new_cluster, n - 1), 0)

\* the increment moved whatever the bucket holds
MassToShiftUnclamped(cluster_probs, cluster_id) == ClusterShiftIncrement

MassToShift(cluster_probs, cluster_id) ==
    Min(ClusterShiftIncrement, cluster_probs[cluster_id])

\* a Python list index: a negative index counts from the end
PyIndex(i, n) == IF i < 0 THEN i + n ELSE i

\* cluster_probs[cluster_id] -= mass; cluster_probs[new_cluster] += mass
ShiftedProbs(cluster_probs, cluster_id, new_cluster, mass) ==
    LET n  == Cardinality(DOMAIN cluster_probs)
        p1 == [cluster_probs EXCEPT ![PyIndex(cluster_id, n)] = @ - mass]
    IN  [p1 EXCEPT ![PyIndex(new_cluster, n)] = @ + mass]

\* the two closing assertions: the sum is 1 within 1e-6, no weight negative
ClusterProbsValid(cluster_probs) ==
    /\ Abs(Sum(cluster_probs) - WeightTotal) * ToleranceDen < WeightTotal
    /\ \A c \in DOMAIN cluster_probs : cluster_probs[c] >= 0

\* the method without its assertion that the sampled cluster has mass
CreditShift_updateNoMassCheck(state, action, local_rng) ==
    IF action = REJECT
    THEN Updated(state)
    ELSE
    LET gid           == state.group_id
        cluster_probs == state.weights[gid]
        n             == Cardinality(DOMAIN cluster_probs)
        cluster_id    == ArgMax(state.applicant_features)
        new_cluster   == NewCluster(cluster_id, state.will_default, n)
        mass_to_shift == MassToShift(cluster_probs, cluster_id)
        shifted       == ShiftedProbs(cluster_probs, cluster_id, new_cluster,
                                      mass_to_shift)
    IN  IF gid # ArgMax(state.group) \/ ~ClusterProbsValid(shifted)
        THEN Failed(state, "AssertionError")
        ELSE Updated([state EXCEPT !.weights[gid] = shifted])

\* the method without its early return on REJECT
CreditShift_updateAnyAction(state, action, local_rng) ==
    LET gid           == state.group_id
        cluster_probs == state.weights[gid]
        n             == Cardinality(DOMAIN cluster_probs)
        cluster_id    == ArgMax(state.applicant_features)
        new_cluster   == NewCluster(cluster_id, state.will_default, n)
        mass_to_shift == MassToShift(cluster_probs, cluster_id)
        shifted       == ShiftedProbs(cluster_probs, cluster_id, new_cluster,
                                      mass_to_shift)
    IN  IF gid # ArgMax(state.group) \/ ~(cluster_probs[cluster_id] > 0)
           \/ ~ClusterProbsValid(shifted)
        THEN Failed(state, "AssertionError")
        ELSE Updated([state EXCEPT !.weights[gid] = shifted])

\* local_rng is the generator "rng = np.random.RandomState()" of the method
CreditShift_update(state, action, local_rng) ==
    IF action = REJECT
    THEN Updated(state)
    ELSE
    LET gid           == state.group_id
        cluster_probs == state.weights[gid]
        n             == Cardinality(DOMAIN cluster_probs)
        cluster_id    == ArgMax(state.applicant_features)
        new_cluster   == NewCluster(cluster_id, state.will_default, n)
        mass_to_shift == MassToShift(cluster_probs, cluster_id)
        shifted       == ShiftedProbs(cluster_probs, cluster_id, new_cluster,
                                      mass_to_shift)
    IN  IF gid # ArgMax(state.group)
        THEN Failed(state, "AssertionError")
        ELSE IF ~SampledGroupsMatch(local_rng, SanitySamples, state)
        THEN Failed(state, "AssertionError")
        ELSE IF ~ArgMaxGivesIndex
        THEN Failed(state, "AssertionError")
        ELSE IF ~(cluster_probs[cluster_id] > 0)
        THEN Failed(state, "AssertionError")
        ELSE IF PyIndex(new_cluster, n) \notin DOMAIN cluster_probs
        THEN Failed(state, "IndexError")
        ELSE IF ~ClusterProbsValid(shifted)
        THEN Failed(state, "AssertionError")
        ELSE Updated([state EXCEPT !.weights[gid] = shifted])

\* every variant wired with the credit shift
ParameterUpdater_updateAlwaysShift(updater, state, action, local_rng) ==
    CreditShift_update(state, action, local_rng)

\* self._parameter_updater.update(state, action)
ParameterUpdater_update(updater, state, action, local_rng) ==
    IF updater = "_CreditShift"
    THEN CreditShift_update(state, action, local_rng)
    ELSE NoUpdate_update(state, action)

----------------------------------------------------------------------------
(* BaseLendingEnv *)

\* the State object of the model's first run
State ==
    [rng                |-> rng,
     weights            |-> weights,
     bank_cash          |-> bank_cash,
     applicant_features |-> applicant_features,
     group              |-> group,
     group_id           |-> group_id,
     will_default       |-> will_default]

\* the environment of the model's first run
Env == [state |-> State, status |-> status, raised |-> raised]

\* the applicant updater run twice on the new State
state_initTwoDraws(params, r, updater) ==
    ApplicantSampler_update(
        ApplicantSampler_update(
            [rng                |-> r,
             weights            |-> params.weights,
             bank_cash          |-> params.bank_starting_cash,
             applicant_features |-> [c \in Clusters |-> 0],
             group              |-> [g \in Groups |-> 0],
             group_id           |-> 0,
             will_default       |-> FALSE],
            updater),
        updater)

\* _state_init(rng): a new State with a copy of the template's parameters
\* and the starting cash, then one run of the applicant updater.  The
\* applicant fields are None in between; the sampler overwrites all four.
state_init(params, r, updater) ==
    ApplicantSampler_update(
        [rng                |-> r,
         weights            |-> params.weights,
         bank_cash          |-> params.bank_starting_cash,
         applicant_features |-> [c \in Clusters |-> 0],
         group              |-> [g \in Groups |-> 0],
         group_id           |-> 0,
         will_default       |-> FALSE],
        updater)

\* reset() calling _state_init() with no generator: a fresh one is made
ResetRngFresh(state_rng, fresh) == fresh

\* the generator reset() hands to _state_init: self.state.rng
ResetRng(state_rng, fresh) == state_rng

\* done already with exactly one loan left
is_doneInclusive(state) == state.bank_cash <= LoanAmount

\* _is_done
is_done(state) == state.bank_cash < LoanAmount

\* the applicant replaced before the step is settled on it
step_implSamplerFirst(state, action, updater, local_rng) ==
    LET s0 == ApplicantSampler_update(state, updater)
        s1 == CashUpdater_update(s0, action)
    IN  ParameterUpdater_update(updater, s1, action, local_rng)

\* _step_impl: the three updaters in order.  An updater that raises ends
\* the step there, with what the earlier updaters did left in the state.
step_impl(state, action, updater, local_rng) ==
    LET s1 == CashUpdater_update(state, action)
        u2 == ParameterUpdater_update(updater, s1, action, local_rng)
    IN  IF u2.raised # "none"
        THEN u2
        ELSE Updated(ApplicantSampler_update(u2.state, updater))

\* reset() that leaves the state of the last episode in place
reset_stateKept(state, params, updater, fresh) == state

\* reset(): self._state_init(self.state.rng)
reset_state(state, params, updater, fresh) ==
    state_init(params, ResetRng(state.rng, fresh), updater)

\* reset(), on an environment [state, status, raised]: the new state, and
\* the environment is ready
reset(env, params, updater, fresh) ==
    [state  |-> reset_state(env.state, params, updater, fresh),
     status |-> "ready",
     raised |-> "none"]

\* every value taken for a member of the action space
ValidActionAny(action) == TRUE

\* action_space.contains(action): the action space is Discrete(2)
ValidAction(action) == action \in {REJECT, ACCEPT}

\* step(action), on an environment [state, status, raised]
step(env, action, updater, local_rng) ==
    IF env.status = "terminated"
    THEN [env EXCEPT !.raised = "PostTerminationStep"]
    ELSE IF env.status # "ready"
    THEN [env EXCEPT !.raised = "NotInitialized"]
    ELSE IF ~ValidAction(action)
    THEN [env EXCEPT !.raised = "InvalidAction"]
    ELSE LET u == step_impl(env.state, action, updater, local_rng)
         IN  [state  |-> u.state,
              status |-> IF u.raised # "none" THEN env.status
                         ELSE IF is_done(u.state) THEN "terminated" ELSE "ready",
              raised |-> u.raised]

\* whether step(action) gets as far as the updaters
Accepted(env, action) == env.status = "ready" /\ ValidAction(action)

\* the entry appended for a step: the state as the updaters left it
HistoryEntryAfter(before, after, action) == [state |-> after, action |-> action]

\* the entry step(action) appends to the history: a snapshot of the state
\* it was called on (before) with the action; after is the state as the
\* updaters leave it
HistoryEntry(before, after, action) == [state |-> before, action |-> action]

\* the template sharing its parameters with the state: what is written to
\* state.params shows in initial_params
TemplateAfterShared(params, state) == [params EXCEPT !.weights = state.weights]

\* initial_params after the updaters wrote to the state: the state holds a
\* deep copy of it, so the template is as it was
TemplateAfter(params, state) == params

\* the generators step(action) may construct: _CreditShift.update makes one,
\* from the operating system's entropy, once it is past its early return;
\* no other path of step constructs any
LocalGenerators(env, action, updater) ==
    IF Accepted(env, action) /\ updater = "_CreditShift" /\ action # REJECT
    THEN OsEntropy
    ELSE {CHOOSE e \in OsEntropy : TRUE}

----------------------------------------------------------------------------
(* The state machine. *)

\* the first run's variables take the environment e
SetEnv(e) ==
    /\ rng' = e.state.rng
    /\ weights' = e.state.weights
    /\ bank_cash' = e.state.bank_cash
    /\ applicant_features' = e.state.applicant_features
    /\ group' = e.state.group
    /\ group_id' = e.state.group_id
    /\ will_default' = e.state.will_default
    /\ status' = e.status
    /\ raised' = e.raised

\* The environment as constructed (__init__ runs _state_init with a fresh
\* generator) and then seeded: both runs hold the same seeded generator,
\* and each the applicant its own construction drew.
Init ==
    \E seed \in RngStates, e1 \in OsEntropy, e2 \in OsEntropy,
       cash \in {LoanAmount, 10 * LoanAmount},
       updater \in {"NoUpdate", "_CreditShift"} :
        LET params == [bank_starting_cash |-> cash, weights |-> TemplateWeights]
            s1 == [state_init(params, e1, updater) EXCEPT !.rng = seed]
            s2 == [state_init(params, e2, updater) EXCEPT !.rng = seed]
        IN  /\ initial_params = params
            /\ parameter_updater = updater
            /\ rng = s1.rng
            /\ weights = s1.weights
            /\ bank_cash = s1.bank_cash
            /\ applicant_features = s1.applicant_features
            /\ group = s1.group
            /\ group_id = s1.group_id
            /\ will_default = s1.will_default
            /\ status = "uninitialized"
            /\ raised = "none"
            /\ history = << >>
            /\ episode = 0
            /\ twin = [state |-> s2, status |-> "uninitialized", raised |-> "none"]

\* reset()
Reset ==
    /\ episode < MaxEpisodes
    /\ \E f1 \in OsEntropy, f2 \in OsEntropy :
        /\ SetEnv(reset(Env, initial_params, parameter_updater, f1))
        /\ twin' = reset(twin, initial_params, parameter_updater, f2)
    /\ episode' = episode + 1
    /\ UNCHANGED <<history, initial_params, parameter_updater>>

\* step(action) in the ready state, with an action of the action space
Step(action) ==
    /\ Accepted(Env, action)
    /\ Len(history) < MaxSteps
    /\ \E l1 \in LocalGenerators(Env, action, parameter_updater),
          l2 \in LocalGenerators(twin, action, parameter_updater) :
        /\ SetEnv(step(Env, action, parameter_updater, l1))
        /\ twin' = step(twin, action, parameter_updater, l2)
    /\ history' = Append(history, HistoryEntry(State, State', action))
    /\ initial_params' = TemplateAfter(initial_params, State')
    /\ UNCHANGED <<episode, parameter_updater>>

\* step(action) where it is an error: before reset(), after termination,
\* or with an action outside the action space
StepRefused(action) ==
    /\ ~Accepted(Env, action)
    /\ \E l1 \in LocalGenerators(Env, action, parameter_updater),
          l2 \in LocalGenerators(twin, action, parameter_updater) :
        /\ SetEnv(step(Env, action, parameter_updater, l1))
        /\ twin' = step(twin, action, parameter_updater, l2)
    /\ UNCHANGED <<history, episode, initial_params, parameter_updater>>

Next ==
    \/ Reset
    \/ \E action \in Actions : Step(action)
    \/ \E action \in Actions : StepRefused(action)

Spec == Init /\ [][Next]_vars

----------------------------------------------------------------------------
(* Properties. *)

\* the decisions of the action space
Decisions == {REJECT, ACCEPT}

\* the last entry of the history
Last == history[Len(history)]

\* this transition is a completed step(a): the history gained its entry
Stepped(a) ==
    /\ Len(history') = Len(history) + 1
    /\ history'[Len(history')].action = a

\* this transition is a reset()
WasReset == episode' = episode + 1

\* the current applicant's cluster and group, as _CreditShift reads them
ApplicantCluster(state) == ArgMax(state.applicant_features)

\* C1: a completed step changes bank cash by exactly this and nothing else:
\* nothing on reject, minus loan_amount on accepting a defaulter, plus
\* loan_amount * interest_rate on accepting a repayer.
C1_CashUpdate ==
    [][\A a \in Decisions :
         Stepped(a) =>
            bank_cash' =
                IF a = REJECT THEN bank_cash
                ELSE IF will_default THEN bank_cash - LoanAmount
                ELSE bank_cash + (LoanAmount * InterestNum) \div InterestDen]_vars

\* from ten loans' worth of cash, one accepted default and one accepted
\* repayment have both been settled (the scenario's 10,000 -> 9,000 and
\* -> 10,100, in hundreds)
C1_Witness ==
    /\ initial_params.bank_starting_cash = 100
    /\ Len(history) = 2
    /\ episode = 1
    /\ history[1].action = ACCEPT /\ history[1].state.will_default
    /\ history[1].state.bank_cash = 100 /\ history[2].state.bank_cash = 90
    /\ history[2].action = ACCEPT /\ ~history[2].state.will_default
    /\ bank_cash = 91

\* C2: in the delayed-impact environment every group's cluster weights sum
\* to 1 within 1e-6 and none is negative, in every reachable state, and the
\* shift's own normalisation assertions never fail.
C2_MassConservation ==
    parameter_updater = "_CreditShift" =>
        /\ \A g \in Groups :
            /\ Abs(Sum(weights[g]) - WeightTotal) * ToleranceDen < WeightTotal
            /\ \A c \in Clusters : weights[g][c] >= 0
        /\ raised \notin {"AssertionError", "IndexError"}

\* a cluster has been drained to weight 0 by a shift smaller than the
\* increment
C2_Witness ==
    /\ parameter_updater = "_CreditShift"
    /\ Len(history) >= 1
    /\ Last.action = ACCEPT
    /\ raised = "none"
    /\ \E g \in Groups, c \in Clusters :
        /\ weights[g][c] = 0
        /\ Last.state.weights[g][c] > 0
        /\ Last.state.weights[g][c] < ClusterShiftIncrement

\* C3: a step with action reject leaves bank cash and every cluster weight
\* unchanged; what it changes in the state is the applicant (and the
\* random source it was drawn from), as ApplicantSampler leaves them.
C3_RejectFrame ==
    [][Stepped(REJECT) =>
        /\ bank_cash' = bank_cash
        /\ weights' = weights
        /\ State' = ApplicantSampler_update(State, parameter_updater)]_vars

\* a reject step in the delayed-impact environment, after an earlier shift,
\* that replaced the applicant by one of another group and cluster
C3_Witness ==
    /\ parameter_updater = "_CreditShift"
    /\ Len(history) >= 2
    /\ Last.action = REJECT
    /\ raised = "none"
    /\ weights # initial_params.weights
    /\ weights = Last.state.weights
    /\ bank_cash = Last.state.bank_cash
    /\ group_id # Last.state.group_id
    /\ applicant_features # Last.state.applicant_features

\* C4: once reset, the environment is terminated exactly when bank cash is
\* below loan_amount (with exactly loan_amount it is not), and the step
\* that takes it from ready to terminated is the step that takes bank cash
\* from at least loan_amount to below it.
C4_TerminationBoundary ==
    /\ [](status # "uninitialized" =>
            (status = "terminated" <=> bank_cash < LoanAmount))
    /\ [][\A a \in Decisions :
            Stepped(a) =>
                /\ bank_cash >= LoanAmount
                /\ (status' = "terminated" <=> bank_cash' < LoanAmount)]_vars

\* a step taken with exactly loan_amount of cash, ready, that terminated
\* the environment
C4_Witness ==
    /\ status = "terminated"
    /\ Len(history) >= 2
    /\ Last.state.bank_cash = LoanAmount
    /\ bank_cash < LoanAmount

\* C5: in the terminated state every step call raises and changes nothing
\* (cash, weights, applicant, random source, history), the environment
\* stays terminated, and only reset() leaves the state: it makes the
\* environment ready, with cash enough to step again.
C5_PostTermination ==
    [][status = "terminated" =>
        \/ /\ WasReset
           /\ status' = "ready"
           /\ raised' = "none"
           /\ ~is_done(State')
        \/ /\ ~WasReset
           /\ raised' = "PostTerminationStep"
           /\ State' = State
           /\ history' = history
           /\ status' = "terminated"]_vars

\* a step call was refused after termination
C5_Witness ==
    /\ status = "terminated"
    /\ raised = "PostTerminationStep"
    /\ Len(history) >= 1
    /\ is_done(State)

\* C6: in every reachable state the group index is the argmax of the
\* group-membership vector.
C6_GroupIdConsistent == group_id = ArgMax(group)

\* after a step, the applicant is of the second group
C6_Witness ==
    /\ status = "ready"
    /\ Len(history) >= 1
    /\ group = OneHot(1, NumGroups)
    /\ group_id = 1

\* C7: two runs that start from the same seeded random source and are given
\* the same calls agree, from reset() on, on bank cash, applicant, cluster
\* weights and the random source after every call; and a completed step
\* advances the random source by the sampler's three draws and no more,
\* whatever the feedback updater sampled for its own checks.
C7_Determinism ==
    /\ [](status # "uninitialized" => twin = Env)
    /\ [][\A a \in Decisions :
            Stepped(a) => rng' = NextRng(NextRng(NextRng(rng)))]_vars

\* the two runs after a second reset and three steps, the last an accept
\* that shifted weights
C7_Witness ==
    /\ parameter_updater = "_CreditShift"
    /\ episode = 2
    /\ Len(history) = 3
    /\ Last.action = ACCEPT
    /\ weights # Last.state.weights
    /\ twin.state = State

\* C8, as amended: on accept, _CreditShift moves min(cluster_shift_increment,
\* weight of the applicant's cluster c) within the applicant's group from c
\* to the target cluster, c - 1 on default and c + 1 on repayment clamped
\* to the cluster range; every other weight is unchanged, and when the
\* clamped target is c itself no weight changes.
C8_ShiftClamped ==
    [][(Stepped(ACCEPT) /\ parameter_updater = "_CreditShift") =>
        LET g == group_id
            c == ArgMax(applicant_features)
            m == Min(ClusterShiftIncrement, weights[g][c])
            t == IF will_default THEN Max(c - 1, 0) ELSE Min(c + 1, NumClusters - 1)
        IN  \A h \in Groups, k \in Clusters :
                weights'[h][k] =
                    weights[h][k]
                    + (IF h = g /\ k = t THEN m ELSE 0)
                    - (IF h = g /\ k = c THEN m ELSE 0)]_vars

\* C8, as stated: the mass leaves cluster c for cluster c - 1 on default and
\* c + 1 on repayment, so the weight of c falls by the mass moved.
C8_ShiftAdjacent ==
    [][(Stepped(ACCEPT) /\ parameter_updater = "_CreditShift") =>
        LET g == group_id
            c == ArgMax(applicant_features)
            m == Min(ClusterShiftIncrement, weights[g][c])
            t == IF will_default THEN c - 1 ELSE c + 1
        IN  \A h \in Groups, k \in Clusters :
                weights'[h][k] =
                    weights[h][k]
                    + (IF h = g /\ k = t THEN m ELSE 0)
                    - (IF h = g /\ k = c THEN m ELSE 0)]_vars

\* an accepted repayer of cluster 0 moved the full increment to cluster 1
C8_Witness ==
    /\ parameter_updater = "_CreditShift"
    /\ Len(history) >= 1
    /\ Last.action = ACCEPT
    /\ ~Last.state.will_default
    /\ ApplicantCluster(Last.state) = 0
    /\ LET g == Last.state.group_id
       IN  /\ Last.state.weights[g][0] > ClusterShiftIncrement
           /\ weights[g][0] = Last.state.weights[g][0] - ClusterShiftIncrement
           /\ weights[g][1] = Last.state.weights[g][1] + ClusterShiftIncrement
           /\ weights[g][2] = Last.state.weights[g][2]

\* C9: the target cluster saturates at the ends of the cluster range and
\* never wraps: accepting a repayer of the highest cluster, or a defaulter
\* of cluster 0, leaves every cluster weight exactly as it was and raises
\* nothing.
C9_Saturation ==
    [][(Stepped(ACCEPT) /\ parameter_updater = "_CreditShift") =>
        LET c == ArgMax(applicant_features)
        IN  ((c = NumClusters - 1 /\ ~will_default) \/ (c = 0 /\ will_default)) =>
                (weights' = weights /\ raised' = "none")]_vars

\* the scenario: weights [0.5, 0.3, 0.2], increment 0.4, a defaulter of
\* cluster 0 accepted, and the weights are as before
C9_Witness ==
    /\ parameter_updater = "_CreditShift"
    /\ Len(history) >= 1
    /\ Last.action = ACCEPT
    /\ Last.state.will_default
    /\ ApplicantCluster(Last.state) = 0
    /\ Last.state.group_id = 0
    /\ Last.state.weights[0] = [c \in Clusters |-> CASE c = 0 -> 5 [] c = 1 -> 3 [] OTHER -> 2]
    /\ weights = Last.state.weights
    /\ raised = "none"

\* C10: a completed step settles cash and shifts weights on the applicant
\* that was current when step was called, and only then, whatever the
\* action, draws the next applicant, from the weights as shifted.
C10_PipelineOrder ==
    [][\A a \in Decisions :
        Stepped(a) =>
            LET settled == CashUpdater_update(State, a)
                shifted == ParameterUpdater_update(parameter_updater, State, a,
                                                   CHOOSE e \in OsEntropy : TRUE)
                drawn   == DistributionSample(rng, weights', parameter_updater)
            IN  /\ bank_cash' = settled.bank_cash
                /\ shifted.raised = "none"
                /\ weights' = shifted.state.weights
                /\ rng' = drawn.rng
                /\ applicant_features' =
                        Clip(drawn.features, MinObservation, MaxObservation)
                /\ group' = drawn.group
                /\ group_id' = ArgMax(drawn.group)
                /\ will_default' = drawn.will_default]_vars

\* an accepted defaulter was settled and shifted, and the applicant drawn
\* after it is a repayer of another cluster
C10_Witness ==
    /\ parameter_updater = "_CreditShift"
    /\ Len(history) >= 1
    /\ Last.action = ACCEPT
    /\ Last.state.will_default /\ ~will_default
    /\ bank_cash = Last.state.bank_cash - LoanAmount
    /\ weights # Last.state.weights
    /\ ApplicantCluster(State) # ApplicantCluster(Last.state)

\* C11: the history only grows, by exactly one entry per completed step
\* and by none otherwise (a reset or a refused call keeps every entry as it
\* is), and the entry of a step holds the state as it was before the
\* step's updaters ran, with an action of the action space.
C11_HistoryAppendOnly ==
    [][/\ \/ history' = history
          \/ \E a \in Decisions :
                history' = Append(history, [state |-> State, action |-> a])
       /\ (~WasReset /\ State' # State) <=> Len(history') = Len(history) + 1]_vars

\* three entries, the first two of a first episode that shifted weights and
\* spent cash, the third taken after the reset that followed: the earlier
\* entries still hold the states they were taken of
C11_Witness ==
    /\ parameter_updater = "_CreditShift"
    /\ episode = 2
    /\ Len(history) = 3
    /\ history[1].state.weights = initial_params.weights
    /\ history[2].state.weights # initial_params.weights
    /\ history[2].state.bank_cash # initial_params.bank_starting_cash
    /\ history[3].state.weights = initial_params.weights
    /\ history[3].state.bank_cash = initial_params.bank_starting_cash
    /\ State # history[3].state

\* C12: a step whose action is outside {reject, accept} raises and changes
\* nothing: bank cash, cluster weights, applicant, random source, history,
\* template and the ready state are as before; and no step completes, and
\* none enters the history, with such an action.
C12_InvalidAction ==
    [][/\ raised' = "InvalidAction" =>
            /\ State' = State
            /\ history' = history
            /\ status' = status
            /\ initial_params' = initial_params
       /\ Len(history') > Len(history) =>
            history'[Len(history')].action \in Decisions]_vars

\* a ready environment, after a step, refused a step with an action
\* outside the action space
C12_Witness ==
    /\ raised = "InvalidAction"
    /\ status = "ready"
    /\ Len(history) >= 1
    /\ parameter_updater = "_CreditShift"
    /\ ~will_default

\* C13: no step and no reset changes the initial-parameters template, and
\* every reset leaves the state's cluster weights equal to the template's,
\* whatever the steps of the episode before made of them.
C13_EpisodeIsolation ==
    /\ [](initial_params.weights = TemplateWeights)
    /\ [][/\ initial_params' = initial_params
          /\ WasReset => weights' = initial_params.weights]_vars

\* a second episode has just begun after an accepted loan of the first moved
\* the weights of a group: the last step recorded worked on weights other
\* than the template's, and the state has the template's again
C13_Witness ==
    /\ parameter_updater = "_CreditShift"
    /\ episode = 2
    /\ Len(history) >= 2
    /\ Last.action = ACCEPT
    /\ Last.state.weights # initial_params.weights
    /\ Last.state.bank_cash # initial_params.bank_starting_cash
    /\ bank_cash = initial_params.bank_starting_cash
    /\ weights = initial_params.weights

\* C14: in every reachable state the bank cash lies in [0, max_cash]: it is
\* never negative and never above max_cash.
C14_CashBounded == 0 <= bank_cash /\ bank_cash <= MaxCash

\* C15: reset() leaves the environment ready, with the configured starting
\* cash, and with the four applicant fields those of exactly one draw from
\* the population, taken with the generator the state held before the reset:
\* the generator afterwards is that one advanced by the one draw.
C15_Reset ==
    [][WasReset =>
        LET d == DistributionSample(rng, initial_params.weights,
                                    parameter_updater)
        IN  /\ status' = "ready"
            /\ raised' = "none"
            /\ bank_cash' = initial_params.bank_starting_cash
            /\ rng' = d.rng
            /\ applicant_features' =
                   Clip(d.features, MinObservation, MaxObservation)
            /\ group' = d.group
            /\ group_id' = ArgMax(d.group)
            /\ will_default' = d.will_default]_vars

\* a second reset, after an episode that ran to its end and left the
\* generator, the cash and the applicant other than the first reset found
\* them
C15_Witness ==
    /\ episode = 2
    /\ status = "ready"
    /\ raised = "none"
    /\ Len(history) >= 2
    /\ history[1].state.rng # Last.state.rng
    /\ Last.state.bank_cash < LoanAmount + LoanAmount
    /\ Last.state.will_default
    /\ Last.action = ACCEPT
    /\ bank_cash = initial_params.bank_starting_cash
    /\ rng # history[1].state.rng
    /\ rng # Last.state.rng

----------------------------------------------------------------------------
(* _CreditShift.update on its own: the method applied to states the
   environment need not reach, among them an applicant whose cluster holds
   no weight. *)

\* the weight vectors a group's mixture can hold: non-negative, summing to 1
WeightVectors ==
    {w \in [Clusters -> 0 .. WeightTotal] : Sum(w) = WeightTotal}

\* a ready delayed-impact state with any weights for the applicant's group
\* and any applicant of it
InitShift ==
    \E g \in Groups, c \in Clusters, w \in WeightVectors, d \in BOOLEAN :
        /\ initial_params = [bank_starting_cash |-> 10 * LoanAmount,
                             weights            |-> TemplateWeights]
        /\ parameter_updater = "_CreditShift"
        /\ rng = 0
        /\ weights = [TemplateWeights EXCEPT ![g] = w]
        /\ bank_cash = 10 * LoanAmount
        /\ applicant_features = ComponentFeatures("_CreditShift", c)
        /\ group = OneHot(g, NumGroups)
        /\ group_id = g
        /\ will_default = d
        /\ history = <<>>
        /\ status = "ready"
        /\ raised = "none"
        /\ episode = 1
        /\ twin = [state  |-> state_init(initial_params, 0, "_CreditShift"),
                   status |-> "ready",
                   raised |-> "none"]

\* self._parameter_updater.update(state, action) alone, on the same
\* applicant, while no call has raised
ApplyShift(action) ==
    /\ raised = "none"
    /\ Len(history) < MaxSteps
    /\ \E l \in OsEntropy :
        LET out == CreditShift_update(State, action, l)
        IN  /\ weights' = out.state.weights
            /\ raised' = out.raised
            /\ history' = Append(history, [state |-> State, action |-> action])
    /\ UNCHANGED <<rng, bank_cash, applicant_features, group, group_id,
                   will_default, status, episode, initial_params,
                   parameter_updater, twin>>

NextShift == \E action \in Decisions : ApplyShift(action)

SpecShift == InitShift /\ [][NextShift]_vars

\* C16: _CreditShift.update with an accept, on an applicant whose cluster
\* holds weight exactly 0, raises and leaves every cluster weight as it was;
\* it does not go on as if it had moved a mass of zero.
C16_ZeroMassFailsFast ==
    [][(Stepped(ACCEPT) /\ weights[group_id][ApplicantCluster(State)] = 0) =>
            /\ raised' = "AssertionError"
            /\ weights' = weights]_vars

\* an accept moved the last of the cluster's weight away, and the next
\* accept of the same applicant met the empty cluster and raised
C16_Witness ==
    /\ raised = "AssertionError"
    /\ Len(history) >= 2
    /\ Last.action = ACCEPT
    /\ history[1].action = ACCEPT
    /\ history[1].state.weights[group_id][ApplicantCluster(State)] > 0
    /\ Last.state.weights[group_id][ApplicantCluster(State)] = 0
    /\ weights = Last.state.weights

\* C17: in the delayed-impact environment the current applicant's cluster
\* (argmax of the features) always holds strictly positive weight in the
\* applicant's group, also once earlier shifts have emptied a cluster, and no
\* assertion of _CreditShift.update is ever raised.
C17_SampledClusterHasMass ==
    parameter_updater = "_CreditShift" =>
        /\ weights[group_id][ApplicantCluster(State)] > 0
        /\ raised # "AssertionError"

\* _CreditShift.update has run on an accept for a group one of whose
\* clusters earlier shifts had emptied, and the applicant drawn after it is
\* of that group again
C17_Witness ==
    /\ parameter_updater = "_CreditShift"
    /\ raised = "none"
    /\ Len(history) >= 2
    /\ Last.action = ACCEPT
    /\ \E c \in Clusters : Last.state.weights[Last.state.group_id][c] = 0
    /\ group_id = Last.state.group_id
    /\ \E c \in Clusters : weights[group_id][c] = 0

\* C18: after construction, after reset and after every step, each element
\* of the current applicant's features lies in
\* [min_observation, max_observation], whatever the population produced.
C18_FeaturesClipped ==
    \A j \in DOMAIN applicant_features :
        /\ MinObservation <= applicant_features[j]
        /\ applicant_features[j] <= MaxObservation

\* after a step, the applicant in the state is one whose sampled features
\* lay outside the bounds on both sides, and the state holds them clipped
C18_Witness ==
    /\ parameter_updater = "NoUpdate"
    /\ status = "ready"
    /\ Len(history) >= 1
    /\ LET sampled == ComponentFeatures(parameter_updater,
                                        ApplicantCluster(State))
       IN  /\ \E j \in Clusters : sampled[j] > MaxObservation
           /\ \E j \in Clusters : sampled[j] < MinObservation
           /\ applicant_features # sampled
           /\ applicant_features =
                  Clip(sampled, MinObservation, MaxObservation)

\* C19: in a variant wired with the no-op updater no step and no reset ever
\* changes a cluster weight, whatever the actions, and a completed step is
\* the cash updater followed by the applicant sampler, the order of the
\* delayed-impact variant with its shift doing nothing.
C19_NoUpdateKeepsWeights ==
    /\ [](parameter_updater = "NoUpdate" => weights = TemplateWeights)
    /\ [][parameter_updater = "NoUpdate" =>
            /\ weights' = weights
            /\ \A a \in Decisions :
                 Stepped(a) =>
                    State' = ApplicantSampler_update(
                                 CashUpdater_update(State, a), "NoUpdate")]_vars

\* a no-op variant after three accepted loans, repaid and defaulted: the
\* cash moved and the weights are the template's
C19_Witness ==
    /\ parameter_updater = "NoUpdate"
    /\ Len(history) = 3
    /\ \A i \in 1 .. 3 : history[i].action = ACCEPT
    /\ \E i \in 1 .. 3 : history[i].state.will_default
    /\ \E i \in 1 .. 3 : ~history[i].state.will_default
    /\ bank_cash # initial_params.bank_starting_cash
    /\ weights = TemplateWeights

====
